---- MODULE Spec2Model ----
(***************************************************************************)
(* A model of the role-gated request dispatcher of enterprise-mcp-mvp-demo *)
(* (routing/request_router.py) and of the persistence layer it consults    *)
(* (db/db_manager.py, db/models.py).                                       *)
(*                                                                         *)
(* Python str values that the code lowercases, strips or searches are      *)
(* sequences of one-character strings, so that str.lower, str.strip and    *)
(* the `in` substring test are computed, not assumed.  Python None is the  *)
(* string "None" in a string-typed slot and the one-element sequence       *)
(* <<"None">> where the slot otherwise holds a character sequence (no      *)
(* real str has a multi-character element).                                *)
(***************************************************************************)
EXTENDS Integers, Sequences, FiniteSets, TLC

VARIABLES
    configuration,  \* RequestRouter.configuration / DatabaseManager.configuration
    db,             \* the rows of the tables users, servers, role_hierarchy
    loop,           \* the request whose coroutine is running on the event loop
    pc,             \* each request's position in route_request
    request,        \* each request's QuestionRequest payload
    category,       \* each request's local variable `category`
    authz,          \* each request's call of check_user_role, with what the store held
    calls,          \* each request's calls on EnterpriseMCPClient objects
    nextClient,     \* number of EnterpriseMCPClient objects instantiated so far
    outcome,        \* what route_request returned or raised, per request
    classifierFailed, \* whether categorize_question took an except branch
    adminOps,       \* number of administrative store operations performed
    lastCall        \* the last direct DatabaseManager call and its result

vars == << configuration, db, loop, pc, request, category, authz, calls,
           nextClient, outcome, classifierFailed, adminOps, lastCall >>

routerVars == << loop, pc, request, category, authz, calls, nextClient,
                 outcome, classifierFailed >>

----------------------------------------------------------------------------
(* Bounds *)

NumRequests == 2
MaxRole == 2
MaxAdminOps == 1

Requests == 1..NumRequests
Roles == 1..MaxRole
NoRequest == 0

----------------------------------------------------------------------------
(* Python str operations *)

PyNone == "None"
NoneStr == << PyNone >>

UpperCase == << "A","B","C","D","E","F","G","H","I","J","K","L","M",
                "N","O","P","Q","R","S","T","U","V","W","X","Y","Z" >>
LowerCase == << "a","b","c","d","e","f","g","h","i","j","k","l","m",
                "n","o","p","q","r","s","t","u","v","w","x","y","z" >>
Whitespace == { " ", "\n", "\t" }

lower_map == [ i \in DOMAIN UpperCase |-> LowerCase[i] ]
upper_index == [ c \in { UpperCase[i] : i \in DOMAIN UpperCase } |->
                   CHOOSE i \in DOMAIN UpperCase : UpperCase[i] = c ]

lower_char(c) ==
    IF c \in DOMAIN upper_index THEN lower_map[upper_index[c]] ELSE c

lower(s) == [ i \in DOMAIN s |-> lower_char(s[i]) ]

contains(sub, s) ==
    \E i \in 0..(Len(s) - Len(sub)) : SubSeq(s, i + 1, i + Len(sub)) = sub

strip(s) ==
    LET keep == { i \in DOMAIN s : s[i] \notin Whitespace }
    IN  IF keep = {} THEN << >>
        ELSE LET lo == CHOOSE i \in keep : \A j \in keep : i <= j
                 hi == CHOOSE i \in keep : \A j \in keep : j <= i
             IN  SubSeq(s, lo, hi)

s_weather == << "w","e","a","t","h","e","r" >>
s_filesystem == << "f","i","l","e","s","y","s","t","e","m" >>
s_Unknown == << "U","n","k","n","o","w","n" >>
s_Unknown_ == << "U","n","k","n","o","w","n","_" >>

----------------------------------------------------------------------------
(* configurations.json *)

GoodPrompt == << "Categorize this request: ", "{question}" >>
BadPrompt  == << "Categorize ", "{category}", ": ", "{question}" >>

FullConfiguration ==
    [ categorize_question_prompt |-> GoodPrompt,
      llm_model |-> "gpt-4o",
      weather_server_path |-> "weather.py",
      filesystem_server_path |-> "filesystem.py",
      allowed_directories |-> "/srv/data",
      SQLALCHEMY_DATABASE_URL |-> "sqlite:///rbac.db" ]

without(c, k) == [ x \in (DOMAIN c) \ {k} |-> c[x] ]

Configurations ==
    { FullConfiguration,
      without(FullConfiguration, "categorize_question_prompt"),
      [ FullConfiguration EXCEPT !.categorize_question_prompt = BadPrompt ],
      without(without(FullConfiguration, "weather_server_path"),
              "filesystem_server_path"),
      without(FullConfiguration, "SQLALCHEMY_DATABASE_URL") }

get(c, k, default) == IF k \in DOMAIN c THEN c[k] ELSE default

\* str.format(question=...): a replacement field other than {question} raises
ReplacementFields == { "{question}", "{category}", "{}" }

format_ok(template) ==
    \A i \in DOMAIN template :
        template[i] \in ReplacementFields => template[i] = "{question}"

----------------------------------------------------------------------------
(* db/models.py: the tables, and db/db_manager.py: DatabaseManager *)

Usernames == { "alice", "bob" }
s_hr == << "h","r" >>
s_weather2 == << "w","e","a","t","h","e","r","2" >>
s_Weather == << "W","e","a","t","h","e","r" >>
ServerNames == { s_weather, s_filesystem, s_hr, s_weather2, s_Weather }

User(id, username, role) == [ id |-> id, username |-> username, role |-> role ]
Server(id, name, required_role) ==
    [ id |-> id, name |-> name, required_role |-> required_role ]

RoleNames == { "admin", "user" }
RoleHierarchy(id, role_name, level) ==
    [ id |-> id, role_name |-> role_name, level |-> level ]

NoRow == [ id |-> 0 ]

\* Query.first() on a filter over a unique column
first(rows) == IF rows = {} THEN NoRow ELSE CHOOSE x \in rows : TRUE

\* The ids a caller may pass: those of the rows, and one that matches no row
ids_to_try(rows) == { x.id : x \in rows } \cup { 0 }

\* INTEGER PRIMARY KEY: one more than the largest id in the table
next_id(rows) ==
    IF rows = {} THEN 1
    ELSE 1 + (CHOOSE m \in { x.id : x \in rows } : \A x \in rows : x.id <= m)

\* DatabaseManager.__init__ binds self.db only when the URL is configured
db_ready(c) == get(c, "SQLALCHEMY_DATABASE_URL", "") # ""

get_user(d, user_id) == first({ u \in d.users : u.id = user_id })
\* get_user_by_name with its filter dropped
get_user_by_name_unfiltered(d, username) == first(d.users)

get_user_by_name(d, username) == first({ u \in d.users : u.username = username })
get_server(d, server_id) == first({ s \in d.servers : s.id = server_id })
get_server_by_name(d, server_name) ==
    first({ s \in d.servers : s.name = server_name })

\* can_access_server with the comparison turned round
can_access_server_inverted(d, user_id, server_id) ==
    LET user == get_user(d, user_id)
        server == get_server(d, server_id)
    IN  IF user # NoRow /\ server # NoRow
        THEN user.role <= server.required_role
        ELSE FALSE

\* can_access_server with a strict comparison
can_access_server_strict(d, user_id, server_id) ==
    LET user == get_user(d, user_id)
        server == get_server(d, server_id)
    IN  IF user # NoRow /\ server # NoRow
        THEN user.role > server.required_role
        ELSE FALSE

\* can_access_server granting only the role that equals the required one
can_access_server_exact(d, user_id, server_id) ==
    LET user == get_user(d, user_id)
        server == get_server(d, server_id)
    IN  IF user # NoRow /\ server # NoRow
        THEN user.role = server.required_role
        ELSE FALSE

can_access_server(d, user_id, server_id) ==
    LET user == get_user(d, user_id)
        server == get_server(d, server_id)
    IN  IF user # NoRow /\ server # NoRow
        THEN user.role >= server.required_role
        ELSE FALSE

\* The result of a DatabaseManager call: the store after it, the value it
\* returned, and the exception it raised ("" when it returned).
Result(d, ret, exc) == [ db |-> d, ret |-> ret, exc |-> exc ]

\* Where the session raises SQLAlchemyError during a call: nowhere, in the
\* SELECT of get_user / get_server / get_role_by_name, in commit(), or in
\* the refresh() that follows a commit that succeeded.  The except branch
\* calls rollback(), which undoes nothing that commit() has made durable.
NoFault == "none"
CreateFaults == { NoFault, "commit", "refresh" }
UpdateFaults == { NoFault, "query", "commit", "refresh" }
DeleteFaults == { NoFault, "query", "commit" }
LookupFaults == { NoFault, "query" }

create_user(d, username, role, fail) ==
    IF fail = "commit" \/ \E u \in d.users : u.username = username
    THEN Result(d, NoRow, "RuntimeError")
    ELSE LET user == User(next_id(d.users), username, role)
             added == [ d EXCEPT !.users = @ \cup { user } ]
         IN  IF fail = "refresh"
             THEN Result(added, NoRow, "RuntimeError")
             ELSE Result(added, user, "")

\* update_user_role whose UPDATE has no WHERE clause
update_user_role_every_user(d, user_id, new_role, fail) ==
    LET user == get_user(d, user_id)
    IN  IF fail = "query" THEN Result(d, NoRow, "RuntimeError")
        ELSE IF user # NoRow
        THEN LET updated == [ user EXCEPT !.role = new_role ]
                 written == [ d EXCEPT !.users =
                                { [ u EXCEPT !.role = new_role ] : u \in @ } ]
             IN  IF fail = "commit" THEN Result(d, NoRow, "RuntimeError")
                 ELSE IF fail = "refresh"
                 THEN Result(written, NoRow, "RuntimeError")
                 ELSE Result(written, updated, "")
        ELSE Result(d, user, "")

update_user_role(d, user_id, new_role, fail) ==
    LET user == get_user(d, user_id)
    IN  IF fail = "query" THEN Result(d, NoRow, "RuntimeError")
        ELSE IF user # NoRow
        THEN LET updated == [ user EXCEPT !.role = new_role ]
                 written == [ d EXCEPT !.users = (@ \ { user }) \cup { updated } ]
             IN  IF fail = "commit" THEN Result(d, NoRow, "RuntimeError")
                 ELSE IF fail = "refresh"
                 THEN Result(written, NoRow, "RuntimeError")
                 ELSE Result(written, updated, "")
        ELSE Result(d, user, "")

delete_user(d, user_id, fail) ==
    LET user == get_user(d, user_id)
    IN  IF fail = "query" THEN Result(d, FALSE, "RuntimeError")
        ELSE IF user # NoRow
        THEN IF fail = "commit" THEN Result(d, FALSE, "RuntimeError")
             ELSE Result([ d EXCEPT !.users = @ \ { user } ], TRUE, "")
        ELSE Result(d, FALSE, "")

create_server(d, name, required_role, fail) ==
    IF fail = "commit" \/ \E s \in d.servers : s.name = name
    THEN Result(d, NoRow, "RuntimeError")
    ELSE LET server == Server(next_id(d.servers), name, required_role)
             added == [ d EXCEPT !.servers = @ \cup { server } ]
         IN  IF fail = "refresh"
             THEN Result(added, NoRow, "RuntimeError")
             ELSE Result(added, server, "")

update_server_role(d, server_id, new_required_role, fail) ==
    LET server == get_server(d, server_id)
    IN  IF fail = "query" THEN Result(d, NoRow, "RuntimeError")
        ELSE IF server # NoRow
        THEN LET updated == [ server EXCEPT !.required_role = new_required_role ]
                 written == [ d EXCEPT !.servers = (@ \ { server }) \cup { updated } ]
             IN  IF fail = "commit" THEN Result(d, NoRow, "RuntimeError")
                 ELSE IF fail = "refresh"
                 THEN Result(written, NoRow, "RuntimeError")
                 ELSE Result(written, updated, "")
        ELSE Result(d, server, "")

delete_server(d, server_id, fail) ==
    LET server == get_server(d, server_id)
    IN  IF fail = "query" THEN Result(d, FALSE, "RuntimeError")
        ELSE IF server # NoRow
        THEN IF fail = "commit" THEN Result(d, FALSE, "RuntimeError")
             ELSE Result([ d EXCEPT !.servers = @ \ { server } ], TRUE, "")
        ELSE Result(d, FALSE, "")

get_role_by_name(d, role_name) ==
    first({ x \in d.roles : x.role_name = role_name })

\* create_role with level not a unique column
create_role_level_not_unique(d, role_name, level, fail) ==
    IF fail = "commit" \/ \E x \in d.roles : x.role_name = role_name
    THEN Result(d, NoRow, "RuntimeError")
    ELSE LET role == RoleHierarchy(next_id(d.roles), role_name, level)
             added == [ d EXCEPT !.roles = @ \cup { role } ]
         IN  IF fail = "refresh"
             THEN Result(added, NoRow, "RuntimeError")
             ELSE Result(added, role, "")

\* role_name and level are both unique columns
create_role(d, role_name, level, fail) ==
    IF \/ fail = "commit"
       \/ \E x \in d.roles : x.role_name = role_name
       \/ \E x \in d.roles : x.level = level
    THEN Result(d, NoRow, "RuntimeError")
    ELSE LET role == RoleHierarchy(next_id(d.roles), role_name, level)
             added == [ d EXCEPT !.roles = @ \cup { role } ]
         IN  IF fail = "refresh"
             THEN Result(added, NoRow, "RuntimeError")
             ELSE Result(added, role, "")

\* line 127 reads role.level.value: role.level is the int of the Integer
\* column, which has no attribute `value`, so the call leaves with
\* AttributeError before create_user is entered
create_user_with_role(d, username, string_role, fail) ==
    LET role == get_role_by_name(d, string_role)
    IN  IF fail = "query" THEN Result(d, NoRow, "RuntimeError")
        ELSE IF role = NoRow THEN Result(d, NoRow, "ValueError")
        ELSE Result(d, NoRow, "AttributeError")

----------------------------------------------------------------------------
(* routing/request_router.py: RequestResponse and RequestRouter *)

Questions == { "will it rain in Addis Ababa?" }
Answers == { "72F", "report.txt" }

\* What the chat completion call can do: raise, or answer with some content
LLMContents ==
    { << " " >> \o s_Weather \o << "\n" >>,
      s_filesystem,
      << "H","R" >>,
      s_weather2,
      s_Unknown_ }
LLMReplies ==
    { [ ok |-> FALSE, content |-> << >> ] }
        \cup { [ ok |-> TRUE, content |-> c ] : c \in LLMContents }

\* A message: a fixed text, or the f-string of line 182 with its two fields
Text(t) == [ text |-> t, username |-> "", category |-> << >> ]
DenialText == "User {username} does not meet criteria to access the {category} server."
FailedToCategorize == Text("Failed to categorize question")
NoServerFound == Text("A server that corresponds to your question can not be found.")

RequestResponse(status, message) == [ status |-> status, message |-> message ]
to_dict(self) == [ status |-> self.status, message |-> self.message ]

\* The state of a call on an EnterpriseMCPClient: awaited, returned, raised
Awaited == [ state |-> "awaited", value |-> "" ]
CallReturned(value) == [ state |-> "returned", value |-> value ]
CallRaised == [ state |-> "raised", value |-> "" ]

Pending == [ kind |-> "pending" ]
Returned(value) == [ kind |-> "return", value |-> value ]
Raised(exc) == [ kind |-> "raise", exc |-> exc ]

\* categorize_question: the value it returns
categorize_question(c, question, reply) ==
    LET prompt == get(c, "categorize_question_prompt", NoneStr)
    IN  IF prompt = NoneStr THEN NoneStr
        ELSE IF ~format_ok(prompt) THEN s_Unknown
        ELSE IF ~reply.ok THEN s_Unknown
        ELSE strip(reply.content)

\* categorize_question: whether it left through one of its except branches
categorize_question_failed(c, question, reply) ==
    LET prompt == get(c, "categorize_question_prompt", NoneStr)
    IN  prompt # NoneStr /\ (~format_ok(prompt) \/ ~reply.ok)

\* check_user_role whose except branches return True
check_user_role_fail_open(d, c, username, server_name, fault) ==
    IF ~db_ready(c) \/ fault THEN TRUE
    ELSE LET user == get_user_by_name(d, username)
             server == get_server_by_name(d, server_name)
         IN  IF user = NoRow \/ server = NoRow THEN TRUE
             ELSE can_access_server(d, user.id, server.id)

\* check_user_role whose `except Exception` branch returns True
check_user_role_true_on_exception(d, c, username, server_name, fault) ==
    IF ~db_ready(c) \/ fault THEN TRUE
    ELSE LET user == get_user_by_name(d, username)
             server == get_server_by_name(d, server_name)
         IN  IF user = NoRow \/ server = NoRow THEN FALSE
             ELSE can_access_server(d, user.id, server.id)

\* `fault`: a query of the session raises (any storage error)
check_user_role(d, c, username, server_name, fault) ==
    IF ~db_ready(c) \/ fault THEN FALSE
    ELSE LET user == get_user_by_name(d, username)
             server == get_server_by_name(d, server_name)
         IN  IF user = NoRow \/ server = NoRow THEN FALSE
             ELSE can_access_server(d, user.id, server.id)

\* line 172
is_failure_sentinel(cat) == cat = s_Unknown_

denial_response(username, cat) ==
    to_dict(RequestResponse("success",
        [ text |-> DenialText, username |-> username, category |-> cat ]))

\* the dispatch with its else branch falling into the weather branch
backend_kind_weather_by_default(cat) ==
    IF contains(s_filesystem, lower(cat)) THEN "filesystem" ELSE "weather"

\* lines 186, 194, 202: which branch of the dispatch is taken
backend_kind(cat) ==
    IF contains(s_weather, lower(cat)) THEN "weather"
    ELSE IF contains(s_filesystem, lower(cat)) THEN "filesystem"
    ELSE "none"

\* one module-level client handed to every request
EnterpriseMCPClient_shared(instantiated) == 1

\* lines 187, 195: EnterpriseMCPClient() constructs a new object; objects are
\* identified by their order of construction
EnterpriseMCPClient(instantiated) == instantiated + 1

connect_args(c, kind) ==
    IF kind = "weather"
    THEN << get(c, "weather_server_path", PyNone), "" >>
    ELSE << get(c, "filesystem_server_path", PyNone),
            get(c, "allowed_directories", ".") >>

\* the answer wrapped with the status of a failure
answer_response_as_error(response) ==
    to_dict(RequestResponse("error", Text(response)))

answer_response(response) == to_dict(RequestResponse("success", Text(response)))

NotChecked ==
    [ called |-> FALSE, username |-> "", server_name |-> << >>, result |-> FALSE,
      fault |-> FALSE,
      user_exists |-> FALSE, server_exists |-> FALSE, role_sufficient |-> FALSE ]

\* What the store held when check_user_role(username, server_name) ran, and
\* whether a query of its session raised (a manager without a session runs
\* no query)
Checked(d, username, server_name, fault, result) ==
    [ called |-> TRUE, username |-> username, server_name |-> server_name,
      result |-> result,
      fault |-> fault,
      user_exists |-> \E u \in d.users : u.username = username,
      server_exists |-> \E s \in d.servers : s.name = server_name,
      role_sufficient |->
          \E u \in d.users : \E s \in d.servers :
              /\ u.username = username
              /\ s.name = server_name
              /\ ~(u.role < s.required_role) ]

finish(r, result) ==
    /\ outcome' = [ outcome EXCEPT ![r] = result ]
    /\ pc' = [ pc EXCEPT ![r] = "done" ]
    /\ loop' = NoRequest

\* The endpoint is called: route_request starts and enters categorize_question.
\* Requests are numbered in their order of arrival.  categorize_question and
\* check_user_role are plain (blocking) calls, so the coroutine keeps the event
\* loop from here to its first await or its return.
route_incoming_request(r, username, question) ==
    /\ pc[r] = "idle"
    /\ \A earlier \in Requests : earlier < r => pc[earlier] # "idle"
    /\ loop = NoRequest
    /\ loop' = r
    /\ pc' = [ pc EXCEPT ![r] = "classifying" ]
    /\ request' = [ request EXCEPT ![r] =
                      [ username |-> username, question |-> question ] ]
    /\ UNCHANGED << configuration, db, category, authz, calls, nextClient,
                    outcome, classifierFailed, adminOps, lastCall >>

\* line 170: categorize_question returns
route_request_categorize(r, reply) ==
    /\ pc[r] = "classifying"
    /\ category' = [ category EXCEPT ![r] =
                       categorize_question(configuration, request[r].question, reply) ]
    /\ classifierFailed' = [ classifierFailed EXCEPT ![r] =
                       categorize_question_failed(configuration, request[r].question, reply) ]
    /\ pc' = [ pc EXCEPT ![r] = "categorized" ]
    /\ UNCHANGED << configuration, db, loop, request, authz, calls, nextClient,
                    outcome, adminOps, lastCall >>

\* lines 172-183: the sentinel guard and the role check.  category.lower() is
\* evaluated outside any try: on None it raises AttributeError.
route_request_authorize(r, fault) ==
    /\ pc[r] = "categorized"
    /\ IF is_failure_sentinel(category[r])
       THEN /\ finish(r, Returned(to_dict(RequestResponse("error", FailedToCategorize))))
            /\ UNCHANGED authz
       ELSE IF category[r] = NoneStr
       THEN /\ finish(r, Raised("AttributeError"))
            /\ UNCHANGED authz
       ELSE LET server_name == lower(category[r])
                allowed == check_user_role(db, configuration, request[r].username,
                                           server_name, fault)
            IN  /\ authz' = [ authz EXCEPT ![r] =
                                Checked(db, request[r].username, server_name,
                                        fault /\ db_ready(configuration),
                                        allowed) ]
                /\ IF allowed
                   THEN /\ pc' = [ pc EXCEPT ![r] = "authorized" ]
                        /\ UNCHANGED << outcome, loop >>
                   ELSE finish(r, Returned(denial_response(request[r].username,
                                                           category[r])))
    /\ UNCHANGED << configuration, db, request, category, calls, nextClient,
                    classifierFailed, adminOps, lastCall >>

\* lines 186-204: a new client is instantiated and connect_to_server is awaited
route_request_dispatch(r) ==
    /\ pc[r] = "authorized"
    /\ LET kind == backend_kind(category[r])
       IN  IF kind = "none"
           THEN /\ finish(r, Returned(to_dict(RequestResponse("success", NoServerFound))))
                /\ UNCHANGED << calls, nextClient >>
           ELSE /\ nextClient' = nextClient + 1
                /\ calls' = [ calls EXCEPT ![r] =
                                << [ client |-> EnterpriseMCPClient(nextClient),
                                     kind |-> kind,
                                     op |-> "connect_to_server",
                                     args |-> connect_args(configuration, kind),
                                     result |-> Awaited ] >> ]
                /\ pc' = [ pc EXCEPT ![r] = "connecting" ]
                /\ loop' = NoRequest
                /\ UNCHANGED outcome
    /\ UNCHANGED << configuration, db, request, category, authz,
                    classifierFailed, adminOps, lastCall >>

\* lines 188-192, 196-200: connect_to_server returns or raises
route_request_connected(r, ok) ==
    /\ pc[r] = "connecting"
    /\ loop = NoRequest
    /\ IF ok
       THEN /\ calls' = [ calls EXCEPT ![r] =
                            << [ @[1] EXCEPT !.result = CallReturned("") ],
                               [ client |-> @[1].client,
                                 kind |-> @[1].kind,
                                 op |-> "process_query",
                                 args |-> << request[r].question >>,
                                 result |-> Awaited ] >> ]
            /\ pc' = [ pc EXCEPT ![r] = "querying" ]
            /\ UNCHANGED << outcome, loop >>
       ELSE /\ calls' = [ calls EXCEPT ![r][1].result = CallRaised ]
            /\ finish(r, Raised("connect_to_server"))
    /\ UNCHANGED << configuration, db, request, category, authz, nextClient,
                    classifierFailed, adminOps, lastCall >>

\* lines 192-193, 200-201: process_query returns or raises
route_request_answered(r, ok, response) ==
    /\ pc[r] = "querying"
    /\ loop = NoRequest
    /\ IF ok
       THEN /\ calls' = [ calls EXCEPT ![r][2].result = CallReturned(response) ]
            /\ finish(r, Returned(answer_response(response)))
       ELSE /\ calls' = [ calls EXCEPT ![r][2].result = CallRaised ]
            /\ finish(r, Raised("process_query"))
    /\ UNCHANGED << configuration, db, request, category, authz,
                    nextClient, classifierFailed, adminOps, lastCall >>

----------------------------------------------------------------------------
(* Store operations by other callers (routes/server_router.py and the like) *)

NoCall == [ op |-> "none" ]

\* A store operation running beside the requests
admin(result) ==
    /\ adminOps < MaxAdminOps
    /\ adminOps' = adminOps + 1
    /\ db' = result.db
    /\ UNCHANGED << configuration, routerVars, lastCall >>

EmptyDb == [ users |-> {}, servers |-> {}, roles |-> {} ]

\* The stores a run starts from: alice is registered, bob is not; the servers
\* weather, filesystem and hr are registered with one required role, and
\* weather2 may be registered, open to the lowest role
SeedDbs ==
    { [ users |-> { User(1, "alice", ra) },
        servers |-> { Server(1, s_weather, rq), Server(2, s_filesystem, rq),
                      Server(3, s_hr, rq) }
                    \cup { Server(4, s_weather2, r2) : r2 \in extra },
        roles |-> {} ] :
      ra \in Roles, rq \in Roles, extra \in { {}, {1} } }

Init ==
    /\ configuration \in Configurations
    /\ db \in SeedDbs
    /\ loop = NoRequest
    /\ pc = [ r \in Requests |-> "idle" ]
    /\ request = [ r \in Requests |-> [ username |-> "", question |-> "" ] ]
    /\ category = [ r \in Requests |-> << >> ]
    /\ authz = [ r \in Requests |-> NotChecked ]
    /\ calls = [ r \in Requests |-> << >> ]
    /\ nextClient = 0
    /\ outcome = [ r \in Requests |-> Pending ]
    /\ classifierFailed = [ r \in Requests |-> FALSE ]
    /\ adminOps = 0
    /\ lastCall = NoCall

Next ==
    \/ \E r \in Requests, u \in Usernames, q \in Questions :
            route_incoming_request(r, u, q)
    \/ \E r \in Requests, reply \in LLMReplies : route_request_categorize(r, reply)
    \/ \E r \in Requests, fault \in BOOLEAN : route_request_authorize(r, fault)
    \/ \E r \in Requests : route_request_dispatch(r)
    \/ \E r \in Requests, ok \in BOOLEAN : route_request_connected(r, ok)
    \/ \E r \in Requests, ok \in BOOLEAN, a \in Answers :
            route_request_answered(r, ok, a)

Spec == Init /\ [][Next]_vars

\* The requests, with store operations of other callers running beside them
AdminNext ==
    \/ Next
    \/ \E id \in ids_to_try(db.users), role \in Roles, fail \in UpdateFaults :
            admin(update_user_role(db, id, role, fail))
    \/ \E id \in ids_to_try(db.servers), role \in Roles, fail \in UpdateFaults :
            admin(update_server_role(db, id, role, fail))
    \/ \E id \in ids_to_try(db.users), fail \in DeleteFaults :
            admin(delete_user(db, id, fail))
    \/ \E id \in ids_to_try(db.servers), fail \in DeleteFaults :
            admin(delete_server(db, id, fail))
    \/ \E u \in Usernames, role \in Roles, fail \in CreateFaults :
            admin(create_user(db, u, role, fail))
    \/ \E n \in ServerNames, role \in Roles, fail \in CreateFaults :
            admin(create_server(db, n, role, fail))

AdminSpec == Init /\ [][AdminNext]_vars

----------------------------------------------------------------------------
(* DatabaseManager called directly *)

MaxStoreOps == 2

\* A method of a DatabaseManager whose __init__ bound no session has no
\* self.db to use
invoke(d, c, result) ==
    IF db_ready(c) THEN result ELSE Result(d, NoRow, "AttributeError")

\* A call that may write; `fail`: where the session raises during the call
call(op, args, fail, result) ==
    /\ adminOps < MaxStoreOps
    /\ adminOps' = adminOps + 1
    /\ LET res == invoke(db, configuration, result)
       IN  /\ db' = res.db
           /\ lastCall' = [ op |-> op, args |-> args, before |-> db,
                            fail |-> fail, ret |-> res.ret, exc |-> res.exc ]
    /\ UNCHANGED << configuration, routerVars >>

\* A call that only reads
query(op, args, ret) ==
    /\ LET res == invoke(db, configuration, Result(db, ret, ""))
       IN  lastCall' = [ op |-> op, args |-> args, before |-> db,
                        fail |-> NoFault, ret |-> res.ret, exc |-> res.exc ]
    /\ UNCHANGED << configuration, db, routerVars, adminOps >>

StoreInit ==
    /\ Init
    /\ configuration \in
           { FullConfiguration,
             without(FullConfiguration, "SQLALCHEMY_DATABASE_URL") }
    /\ Cardinality(db.servers) = 3
    /\ \A u \in db.users : u.role = 1

StoreNext ==
    \/ \E u \in Usernames, role \in Roles, fail \in CreateFaults :
            call("create_user", << u, role >>, fail,
                 create_user(db, u, role, fail))
    \/ \E id \in ids_to_try(db.users), role \in Roles, fail \in UpdateFaults :
            call("update_user_role", << id, role >>, fail,
                 update_user_role(db, id, role, fail))
    \/ \E id \in ids_to_try(db.users), fail \in DeleteFaults :
            call("delete_user", << id >>, fail, delete_user(db, id, fail))
    \/ \E n \in ServerNames, role \in Roles, fail \in CreateFaults :
            call("create_server", << n, role >>, fail,
                 create_server(db, n, role, fail))
    \/ \E id \in ids_to_try(db.servers), role \in Roles, fail \in UpdateFaults :
            call("update_server_role", << id, role >>, fail,
                 update_server_role(db, id, role, fail))
    \/ \E id \in ids_to_try(db.servers), fail \in DeleteFaults :
            call("delete_server", << id >>, fail, delete_server(db, id, fail))
    \/ \E n \in RoleNames, level \in Roles, fail \in CreateFaults :
            call("create_role", << n, level >>, fail,
                 create_role(db, n, level, fail))
    \/ \E u \in Usernames, n \in RoleNames, fail \in LookupFaults :
            call("create_user_with_role", << u, n >>, fail,
                 create_user_with_role(db, u, n, fail))
    \/ \E uid \in ids_to_try(db.users), sid \in ids_to_try(db.servers) :
            query("can_access_server", << uid, sid >>,
                  can_access_server(db, uid, sid))

StoreSpec == StoreInit /\ [][StoreNext]_vars

----------------------------------------------------------------------------
(* Properties of route_request *)

done(r) == pc[r] = "done"
returned(r, status, message) ==
    outcome[r] = Returned([ status |-> status, message |-> message ])
denied(r) ==
    returned(r, "success",
             [ text |-> DenialText, username |-> request[r].username,
               category |-> category[r] ])

\* C1: a request calls connect_to_server or process_query only after its
\* check_user_role(username, category.lower()) returned True, and then a user
\* of that name and a server of that name existed with role >= required_role.
C1_NeverDispatchUnauthorized ==
    \A r \in Requests :
        calls[r] # << >> =>
            /\ authz[r].called
            /\ authz[r].result
            /\ authz[r].username = request[r].username
            /\ authz[r].server_name = lower(category[r])
            /\ authz[r].user_exists
            /\ authz[r].server_exists
            /\ authz[r].role_sufficient

C1_Witness ==
    \E r \in Requests :
        /\ Len(calls[r]) = 2
        /\ calls[r][1].op = "connect_to_server"
        /\ calls[r][2].op = "process_query"
        /\ authz[r].result

\* C2: when categorize_question left through an except branch and returned
\* its sentinel "Unknown", the request makes no user/server lookup and ends
\* with {status: "error", message: "Failed to categorize question"}.
C2_SentinelEndsTheRequest ==
    \A r \in Requests :
        (classifierFailed[r] /\ category[r] = s_Unknown) =>
            /\ ~authz[r].called
            /\ done(r) => returned(r, "error", Text("Failed to categorize question"))

\* C3: every request that has left route_request left it by returning a dict
\* with exactly the keys status and message.
C3_AlwaysResponds ==
    \A r \in Requests :
        done(r) =>
            /\ outcome[r].kind = "return"
            /\ DOMAIN outcome[r].value = { "status", "message" }

\* C4: when the lookup finds no user of that name, or no server named
\* category.lower(), the request ends at once with the denial response (status
\* "success", the denial message) and raises nothing and calls no backend.
C4_MissingRowIsDenial ==
    \A r \in Requests :
        (authz[r].called /\ (~authz[r].user_exists \/ ~authz[r].server_exists)) =>
            /\ done(r)
            /\ denied(r)
            /\ calls[r] = << >>

C4_Witness ==
    /\ \E r \in Requests : authz[r].called /\ ~authz[r].user_exists /\ denied(r)
    /\ \E r \in Requests :
          authz[r].called /\ authz[r].user_exists /\ ~authz[r].server_exists
              /\ denied(r)

\* C5: when connect_to_server or process_query raises for a request, that
\* request returns an error response: it does not leave route_request as an
\* exception.
C5_BackendFailureIsAnErrorResponse ==
    \A r \in Requests :
        (\E i \in DOMAIN calls[r] : calls[r][i].result = CallRaised) =>
            /\ outcome[r].kind = "return"
            /\ outcome[r].value.status = "error"

\* C6: with categorize_question_prompt missing or malformed, or a backend path
\* missing, no request leaves route_request as an exception.
C6_ConfigurationErrorFailsClosed ==
    (\/ get(configuration, "categorize_question_prompt", NoneStr) = NoneStr
     \/ ~format_ok(get(configuration, "categorize_question_prompt", GoodPrompt))
     \/ get(configuration, "weather_server_path", PyNone) = PyNone
     \/ get(configuration, "filesystem_server_path", PyNone) = PyNone)
        => \A r \in Requests : done(r) => outcome[r].kind = "return"

\* C7: when the user and the server exist and user.role < required_role, the
\* request ends with status "success" and the denial message naming the
\* username and the category, and calls no backend.
C7_InsufficientRoleIsDenied ==
    \A r \in Requests :
        (/\ authz[r].called
         /\ authz[r].user_exists
         /\ authz[r].server_exists
         /\ ~authz[r].role_sufficient) =>
            /\ done(r)
            /\ outcome[r].kind = "return"
            /\ outcome[r].value.status = "success"
            /\ outcome[r].value.message.text = DenialText
            /\ outcome[r].value.message.username = request[r].username
            /\ outcome[r].value.message.category = category[r]
            /\ calls[r] = << >>

C7_Witness ==
    \E r \in Requests :
        /\ authz[r].called
        /\ authz[r].user_exists
        /\ authz[r].server_exists
        /\ ~authz[r].role_sufficient
        /\ done(r)

\* C8: when an authorized request's process_query answered text t, the request
\* returns exactly {status: "success", message: t}.
C8_AnswerIsRelayed ==
    \A r \in Requests :
        (/\ Len(calls[r]) = 2
         /\ calls[r][2].result.state = "returned") =>
            /\ authz[r].result
            /\ done(r)
            /\ returned(r, "success", Text(calls[r][2].result.value))

C8_Witness ==
    \E r1 \in Requests, r2 \in Requests :
        /\ Len(calls[r1]) = 2
        /\ Len(calls[r2]) = 2
        /\ calls[r1][2].result = CallReturned("72F")
        /\ calls[r2][2].result = CallReturned("report.txt")
        /\ calls[r1][1].kind = "weather"
        /\ calls[r2][1].kind = "filesystem"

\* C9: when the user is authorized for the server named category.lower() and
\* the category contains neither "weather" nor "filesystem", the request
\* calls no backend and returns status "success" with the fixed message.
C9_UnrecognizedKind ==
    \A r \in Requests :
        (/\ authz[r].result
         /\ ~contains(s_weather, lower(category[r]))
         /\ ~contains(s_filesystem, lower(category[r]))) =>
            /\ calls[r] = << >>
            /\ pc[r] \in { "authorized", "done" }
            /\ done(r) =>
                 returned(r, "success",
                     Text("A server that corresponds to your question can not be found."))

C9_Witness ==
    \E r \in Requests :
        /\ authz[r].result
        /\ category[r] = << "H","R" >>
        /\ done(r)

\* C16: a request makes calls on at most one EnterpriseMCPClient, and only
\* after it was authorized: first connect_to_server, then, once that returned,
\* one process_query on the same object; no object is used by two requests;
\* a request that ended has no call outstanding; and an authorized request
\* of a known backend kind that returned made exactly those two calls.
C16_OneFreshSessionPerRequest ==
    /\ \A r \in Requests :
          /\ Len(calls[r]) <= 2
          /\ calls[r] # << >> =>
                /\ authz[r].result
                /\ calls[r][1].op = "connect_to_server"
                /\ calls[r][1].client \in 1..nextClient
          /\ Len(calls[r]) = 2 =>
                /\ calls[r][2].op = "process_query"
                /\ calls[r][2].client = calls[r][1].client
                /\ calls[r][1].result.state = "returned"
          /\ done(r) => \A i \in DOMAIN calls[r] : calls[r][i].result # Awaited
          /\ (/\ done(r)
              /\ outcome[r].kind = "return"
              /\ authz[r].result
              /\ backend_kind(category[r]) # "none") =>
                /\ Len(calls[r]) = 2
                /\ calls[r][2].result.state = "returned"
    /\ \A r1 \in Requests : \A r2 \in Requests :
          \A i \in DOMAIN calls[r1] : \A j \in DOMAIN calls[r2] :
              calls[r1][i].client = calls[r2][j].client => r1 = r2

C16_Witness ==
    \E r1 \in Requests : \E r2 \in Requests :
        /\ r1 # r2
        /\ done(r1) /\ Len(calls[r1]) = 2
        /\ calls[r1][2].result.state = "returned"
        /\ Len(calls[r2]) = 2
        /\ calls[r2][2].result = Awaited

\* A request that has entered route_request and has not left it
in_flight(r) == pc[r] \notin { "idle", "done" }

\* Some step of request r
step(r) ==
    \/ \E reply \in LLMReplies : route_request_categorize(r, reply)
    \/ \E fault \in BOOLEAN : route_request_authorize(r, fault)
    \/ route_request_dispatch(r)
    \/ \E ok \in BOOLEAN : route_request_connected(r, ok)
    \/ \E ok \in BOOLEAN, a \in Answers : route_request_answered(r, ok, a)

\* C17: while a request is inside its classifier call, or awaits
\* connect_to_server or process_query, every other request in flight can
\* take its next step.
C17_CallsAreSuspending ==
    \A r \in Requests : \A other \in Requests :
        (/\ other # r
         /\ pc[r] \in { "classifying", "connecting", "querying" }
         /\ in_flight(other)) => ENABLED step(other)

\* The store holds a user of the request's name and a server named
\* category.lower() with user.role >= server.required_role
authorized_in(d, r) ==
    \E u \in d.users : \E s \in d.servers :
        /\ u.username = request[r].username
        /\ s.name = lower(category[r])
        /\ u.role >= s.required_role

\* C19: with store operations of other callers interleaved, in every step
\* that issues a request's process_query the store holds the request's user
\* and the server named category.lower(), with role >= required_role.
C19_AuthorizationNotStale ==
    [][ \A r \in Requests :
            (Len(calls[r]) = 1 /\ Len(calls'[r]) = 2) => authorized_in(db, r) ]_vars

\* The name of the Server record of a backend kind
server_of_kind(kind) == IF kind = "weather" THEN s_weather ELSE s_filesystem

\* C20: whenever a request has connected to the weather (the filesystem)
\* backend, the store holds the request's user and the server named exactly
\* "weather" ("filesystem") with user.role >= server.required_role.
C20_BackendAgreesWithAuthorizedServer ==
    \A r \in Requests :
        calls[r] # << >> =>
            \E u \in db.users : \E s \in db.servers :
                /\ u.username = request[r].username
                /\ s.name = server_of_kind(calls[r][1].kind)
                /\ u.role >= s.required_role

\* C21: every call of check_user_role returns a boolean and raises nothing;
\* it returns False when no user of that name or no server of that name is
\* stored, when the DatabaseManager was built without a database URL, and
\* when a query of its session raised; the request is then answered with the
\* denial and calls no backend.
C21_CheckUserRoleFailsClosed ==
    \A r \in Requests :
        authz[r].called =>
            /\ authz[r].result \in BOOLEAN
            /\ authz[r].result => pc[r] # "categorized"
            /\ (\/ ~authz[r].user_exists
                \/ ~authz[r].server_exists
                \/ ~db_ready(configuration)
                \/ authz[r].fault) =>
                  /\ authz[r].result = FALSE
                  /\ calls[r] = << >>
                  /\ done(r)
                  /\ denied(r)

C21_Witness ==
    /\ db_ready(configuration)
    /\ \E r \in Requests :
          /\ authz[r].called
          /\ authz[r].fault
          /\ authz[r].user_exists
          /\ authz[r].server_exists
          /\ authz[r].role_sufficient
          /\ authz[r].result = FALSE
          /\ denied(r)

----------------------------------------------------------------------------
(* Properties of DatabaseManager *)

\* C10: on a DatabaseManager with a session, can_access_server(user_id,
\* server_id) returns True exactly when a user with that id and a server with
\* that id exist and user.role >= server.required_role; when either is
\* missing it returns False and raises nothing.
C10_CanAccessServer ==
    (lastCall.op = "can_access_server" /\ db_ready(configuration)) =>
        LET users == { u \in db.users : u.id = lastCall.args[1] }
            servers == { s \in db.servers : s.id = lastCall.args[2] }
        IN  /\ lastCall.exc = ""
            /\ lastCall.ret \in BOOLEAN
            /\ lastCall.ret <=>
                 \E u \in users : \E s \in servers : u.role >= s.required_role
            /\ (users = {} \/ servers = {}) => lastCall.ret = FALSE

C10_Witness ==
    /\ lastCall.op = "can_access_server"
    /\ lastCall.exc = ""
    /\ lastCall.ret = FALSE
    /\ \E u \in db.users : u.id = lastCall.args[1]
    /\ ~\E s \in db.servers : s.id = lastCall.args[2]

\* C11: access is monotonic in the user's role.  For a stored server and two
\* stored users with roles r1 < r2: when can_access_server grants the r1 user
\* it grants the r2 user, it grants the r2 user whenever r2 >= required_role,
\* and it never grants the r1 user while it denies the r2 user; and a call
\* that returned True returns True for every user of a higher role.
C11_AccessIsMonotonic ==
    /\ \A s \in db.servers : \A u1 \in db.users : \A u2 \in db.users :
          u1.role < u2.role =>
              /\ can_access_server(db, u1.id, s.id) =>
                     can_access_server(db, u2.id, s.id)
              /\ u2.role >= s.required_role => can_access_server(db, u2.id, s.id)
              /\ ~(can_access_server(db, u1.id, s.id)
                       /\ ~can_access_server(db, u2.id, s.id))
    /\ (lastCall.op = "can_access_server" /\ lastCall.exc = "" /\ lastCall.ret = TRUE) =>
          \A u1 \in db.users : \A u2 \in db.users :
              (u1.id = lastCall.args[1] /\ u1.role < u2.role) =>
                  can_access_server(db, u2.id, lastCall.args[2])

C11_Witness ==
    /\ lastCall.op = "can_access_server"
    /\ lastCall.exc = ""
    /\ lastCall.ret = TRUE
    /\ \E u1 \in db.users : \E u2 \in db.users : \E s \in db.servers :
          /\ u1.id = lastCall.args[1]
          /\ s.id = lastCall.args[2]
          /\ u1.role < u2.role
          /\ u1.role = s.required_role

\* C12: no two stored servers have names that are equal after lowercasing,
\* and a create_server whose name equals a stored server's name after
\* lowercasing is rejected.
C12_OneServerPerLoweredName ==
    /\ \A s1 \in db.servers : \A s2 \in db.servers :
          lower(s1.name) = lower(s2.name) => s1 = s2
    /\ (/\ lastCall.op = "create_server"
        /\ \E s \in lastCall.before.servers :
              lower(s.name) = lower(lastCall.args[1])) =>
          /\ lastCall.exc # ""
          /\ db = lastCall.before

\* C13: every two stored roles differ in level and in role_name; a
\* create_role whose level is already stored raises RuntimeError and leaves
\* the store as it was; a create_role that returns adds its one row and
\* changes the level of no other role.
C13_LevelsAreUnique ==
    /\ \A x \in db.roles : \A y \in db.roles :
          (x.level = y.level \/ x.role_name = y.role_name) => x = y
    /\ lastCall.op = "create_role" =>
          /\ (\E x \in lastCall.before.roles : x.level = lastCall.args[2]) =>
                /\ lastCall.exc = "RuntimeError"
                /\ db = lastCall.before
          /\ lastCall.exc = "" =>
                /\ lastCall.ret.role_name = lastCall.args[1]
                /\ lastCall.ret.level = lastCall.args[2]
                /\ lastCall.ret \notin lastCall.before.roles
                /\ db.roles = lastCall.before.roles \cup { lastCall.ret }
          /\ \A x \in lastCall.before.roles : x \in db.roles

C13_Witness ==
    /\ lastCall.op = "create_role"
    /\ lastCall.fail = NoFault
    /\ lastCall.exc = "RuntimeError"
    /\ db.roles # {}
    /\ \A x \in db.roles :
          x.level = lastCall.args[2] /\ x.role_name # lastCall.args[1]

\* The rows of one table that a call added, removed or rewrote
changed(before, after) == (before \ after) \cup (after \ before)

\* The store differs from the one before the call by at most one record
single_change(before, after) ==
    LET users == changed(before.users, after.users)
        servers == changed(before.servers, after.servers)
        roles == changed(before.roles, after.roles)
    IN  /\ Cardinality({ x.id : x \in users }) + Cardinality({ x.id : x \in servers })
              + Cardinality({ x.id : x \in roles }) <= 1

WriteOps ==
    { "create_user", "update_user_role", "delete_user",
      "create_server", "update_server_role", "delete_server", "create_role" }

\* C14: on a DatabaseManager with a session, each create, update and delete
\* call either returns having changed at most its one record, or raises
\* RuntimeError (and no other exception) with users, servers and roles
\* exactly as they were before the call.
C14_OperationsAreAtomic ==
    (lastCall.op \in WriteOps /\ db_ready(configuration)) =>
        /\ lastCall.exc \in { "", "RuntimeError" }
        /\ lastCall.exc = "" => single_change(lastCall.before, db)
        /\ lastCall.exc = "RuntimeError" => db = lastCall.before

\* C15: an update_user_role(id, r) or update_server_role(id, r) that returns
\* on a stored id returns the record with role r, a read of that id then
\* gives role r with the id and the name as before, and every other user
\* and server and the role hierarchy are as before; on an id that is not
\* stored it returns None and the store is as before.
C15_UpdateChangesOnlyTheRole ==
    /\ (lastCall.op = "update_user_role" /\ lastCall.exc = "") =>
          LET old == get_user(lastCall.before, lastCall.args[1])
              new == get_user(db, lastCall.args[1])
          IN  IF old # NoRow
              THEN /\ new = [ old EXCEPT !.role = lastCall.args[2] ]
                   /\ lastCall.ret = new
                   /\ db.users \ { new } = lastCall.before.users \ { old }
                   /\ db.servers = lastCall.before.servers
                   /\ db.roles = lastCall.before.roles
              ELSE /\ lastCall.ret = NoRow
                   /\ db = lastCall.before
    /\ (lastCall.op = "update_server_role" /\ lastCall.exc = "") =>
          LET old == get_server(lastCall.before, lastCall.args[1])
              new == get_server(db, lastCall.args[1])
          IN  IF old # NoRow
              THEN /\ new = [ old EXCEPT !.required_role = lastCall.args[2] ]
                   /\ lastCall.ret = new
                   /\ db.servers \ { new } = lastCall.before.servers \ { old }
                   /\ db.users = lastCall.before.users
                   /\ db.roles = lastCall.before.roles
              ELSE /\ lastCall.ret = NoRow
                   /\ db = lastCall.before

C15_Witness ==
    /\ lastCall.op = "update_user_role"
    /\ lastCall.exc = ""
    /\ \E u \in lastCall.before.users :
          u.id = lastCall.args[1] /\ u.role # lastCall.args[2]
    /\ \E u \in db.users : u.id # lastCall.args[1]

\* C18: on a DatabaseManager with a session that raises nothing,
\* create_user_with_role(username, string_role) with a stored role named
\* string_role and a free username returns a new user whose role is that
\* role's level and stores it; with no role of that name it raises and the
\* store is as before.
C18_CreateUserWithRole ==
    (/\ lastCall.op = "create_user_with_role"
     /\ db_ready(configuration)
     /\ lastCall.fail = NoFault) =>
        LET role == get_role_by_name(lastCall.before, lastCall.args[2])
        IN  IF role # NoRow
            THEN (\A u \in lastCall.before.users : u.username # lastCall.args[1]) =>
                     /\ lastCall.exc = ""
                     /\ lastCall.ret \in db.users
                     /\ lastCall.ret \notin lastCall.before.users
                     /\ lastCall.ret.username = lastCall.args[1]
                     /\ lastCall.ret.role = role.level
                     /\ db.users = lastCall.before.users \cup { lastCall.ret }
            ELSE /\ lastCall.exc # ""
                 /\ db = lastCall.before

====
